---- MODULE Spec2Model ----
(***************************************************************************)
(* memory_units (src/src/lib.rs): the unit types Bytes, Words and Pages,   *)
(* their exact conversions (From), their round-up conversions (RoundUpTo)  *)
(* and the four operators generated by impl_unit_ops!.                     *)
(*                                                                         *)
(* The wrapped integer is a usize.  The model is built for a target whose  *)
(* usize has USIZE_BITS bits; every operation on it is the machine         *)
(* operation: `+`, `-` and `*` panic on overflow when the build has        *)
(* overflow checks (the dev profile) and wrap modulo 2^USIZE_BITS when it  *)
(* has not (the release profile); `/` panics on a zero divisor in both.    *)
(* The code is the same at every width; the 16-bit target (PAGE_SIZE 4096, *)
(* two-byte words) is the one whose whole usize range TLC's integers hold. *)
(***************************************************************************)
EXTENDS Integers, Sequences, FiniteSets

\* ------------------------------------------------------------------ bounds

\* Longest chain of calls applied to one value.
MaxSteps == 2

\* Radius of the neighbourhood taken around each boundary input.
Near == 1

\* ------------------------------------------------------- platform constants

\* Width of usize in bits (target_pointer_width; not wasm32).
USIZE_BITS == 16

\* usize::MAX
USIZE_MAX == 2^USIZE_BITS - 1

\* mem::size_of::<usize>()
SIZE_OF_USIZE == USIZE_BITS \div 8

\* pub const PAGE_SIZE: Bytes = Bytes(4096), cfg(not(target_arch = "wasm32"))
PAGE_SIZE == 4096

\* ------------------------------------------------------------ usize machine

VARIABLES
  overflow_checks,  \* build configuration: are `+ - *` overflow-checked
  cur,              \* the value the caller holds (or Panicked)
  rhs,              \* the right operand the caller passes to an operator
  hist              \* the calls made so far: <<[op, arg, res], ...>>

vars == <<overflow_checks, cur, rhs, hist>>

\* Result of a usize operation that panicked.
PANIC == -1

\* x reduced into the usize range (two's complement wrap-around).
Wrap(x) == x % (USIZE_MAX + 1)

\* a * b reduced modulo 2^USIZE_BITS, by half-words so that no intermediate
\* product leaves the range of the checker's own integers.
WrappingMul(a, b) ==
  LET H  == 2^(USIZE_BITS \div 2)
      ah == a \div H
      al == a % H
      bh == b \div H
      bl == b % H
  IN  Wrap(((ah * bl + al * bh) % H) * H + al * bl)

\* usize `a.wrapping_add(b)`: the sum is never checked.
usize_add_wrapping(a, b) ==
  IF a = PANIC \/ b = PANIC THEN PANIC ELSE Wrap(a + b)

\* usize `a + b`
usize_add(a, b) ==
  IF a = PANIC \/ b = PANIC THEN PANIC
  ELSE IF a + b <= USIZE_MAX THEN a + b
  ELSE IF overflow_checks THEN PANIC
  ELSE Wrap(a + b)

\* usize `a.wrapping_sub(b)`: the difference is never checked.
usize_sub_wrapping(a, b) ==
  IF a = PANIC \/ b = PANIC THEN PANIC ELSE Wrap(a - b)

\* usize `a - b`
usize_sub(a, b) ==
  IF a = PANIC \/ b = PANIC THEN PANIC
  ELSE IF b <= a THEN a - b
  ELSE IF overflow_checks THEN PANIC
  ELSE Wrap(a - b)

\* usize `a * b`
usize_mul(a, b) ==
  IF a = PANIC \/ b = PANIC THEN PANIC
  ELSE IF a = 0 \/ b <= USIZE_MAX \div a THEN a * b
  ELSE IF overflow_checks THEN PANIC
  ELSE WrappingMul(a, b)

\* usize `a / b`
usize_div(a, b) ==
  IF a = PANIC \/ b = PANIC THEN PANIC
  ELSE IF b = 0 THEN PANIC
  ELSE a \div b

\* ------------------------------------------------------------- unit values

Units == {"Bytes", "Words", "Pages"}

\* What a call that panicked leaves the caller with: no value.
Panicked == [unit |-> "panic", n |-> 0]

\* Bytes(x), Words(x), Pages(x): the tuple struct around a usize.
Unit(u, x) == IF x = PANIC THEN Panicked ELSE [unit |-> u, n |-> x]

\* fn round_up_to(n: usize, divisor: usize) -> usize
round_up_to(n, divisor) ==
  usize_div(usize_sub(usize_add(n, divisor), 1), divisor)

\* impl From<Words> for Bytes
Bytes_from_Words(words) == Unit("Bytes", usize_mul(words.n, SIZE_OF_USIZE))

\* From<Pages> for Bytes multiplying by the word size instead of the page size.
Bytes_from_Pages_by_word_size(pages) ==
  Unit("Bytes", usize_mul(pages.n, SIZE_OF_USIZE))

\* impl From<Pages> for Bytes
Bytes_from_Pages(pages) == Unit("Bytes", usize_mul(pages.n, PAGE_SIZE))

\* impl RoundUpTo<Words> for Bytes
Bytes_round_up_to_Words(bytes) ==
  Unit("Words", round_up_to(bytes.n, SIZE_OF_USIZE))

\* impl RoundUpTo<Pages> for Bytes
Bytes_round_up_to_Pages(bytes) ==
  Unit("Pages", round_up_to(bytes.n, PAGE_SIZE))

\* impl From<Pages> for Words
Words_from_Pages(pages) ==
  Unit("Words", usize_div(usize_mul(pages.n, PAGE_SIZE), SIZE_OF_USIZE))

\* impl RoundUpTo<Pages> for Words
Words_round_up_to_Pages(words) ==
  LET bytes == Bytes_from_Words(words)
  IN  IF bytes = Panicked THEN Panicked ELSE Bytes_round_up_to_Pages(bytes)

\* The bound `T: Into<Self>`: the From impls above and core's reflexive one.
Convertible(from, to) ==
  \/ from = to
  \/ from = "Words" /\ to = "Bytes"
  \/ from = "Pages" /\ to = "Bytes"
  \/ from = "Pages" /\ to = "Words"

\* `rhs.0` taken as it is, with no conversion into the left unit.
into_unconverted(v, to) == [unit |-> to, n |-> v.n]

\* `rhs.into()` with Self = to
into(v, to) ==
  IF v.unit = to THEN v
  ELSE IF v.unit = "Words" /\ to = "Bytes" THEN Bytes_from_Words(v)
  ELSE IF v.unit = "Pages" /\ to = "Bytes" THEN Bytes_from_Pages(v)
  ELSE Words_from_Pages(v)

\* The wrapped integer of a value; PANIC when there is none.
Field0(v) == IF v = Panicked THEN PANIC ELSE v.n

\* impl<T: Into<Self>> ops::Add<T> for $name
add(self, r) == Unit(self.unit, usize_add(self.n, Field0(into(r, self.unit))))

\* impl<T: Into<Self>> ops::Sub<T> for $name
sub(self, r) == Unit(self.unit, usize_sub(self.n, Field0(into(r, self.unit))))

\* impl<T: Into<Self>> ops::Mul<T> for $name
mul(self, r) == Unit(self.unit, usize_mul(self.n, Field0(into(r, self.unit))))

\* impl<T: Into<Self>> ops::Div<T> for $name
div(self, r) == Unit(self.unit, usize_div(self.n, Field0(into(r, self.unit))))

\* ------------------------------------------------------------------ inputs

\* The usize values at which the conversions change behaviour.
Boundaries ==
  { 0, SIZE_OF_USIZE, 13, PAGE_SIZE, 2 * PAGE_SIZE,
    USIZE_MAX \div PAGE_SIZE,
    USIZE_MAX \div (PAGE_SIZE \div SIZE_OF_USIZE),
    USIZE_MAX \div SIZE_OF_USIZE,
    USIZE_MAX - PAGE_SIZE + 1,
    USIZE_MAX }

Inputs ==
  { v \in UNION { (b - Near) .. (b + Near) : b \in Boundaries } :
      v >= 0 /\ v <= USIZE_MAX }

RhsInputs ==
  { 0, 1, SIZE_OF_USIZE, USIZE_MAX \div PAGE_SIZE + 1, PAGE_SIZE, USIZE_MAX }

\* ------------------------------------------------------------ state machine

Init ==
  /\ overflow_checks \in BOOLEAN
  /\ cur \in { Unit(u, x) : u \in Units, x \in Inputs }
  /\ rhs \in { Unit(u, x) : u \in Units, x \in RhsInputs }
  /\ hist = << >>

\* One call: `op` applied to the value held, giving `res`.
Call(op, res) ==
  /\ hist' = Append(hist, [op |-> op, arg |-> cur, res |-> res])
  /\ cur' = res
  /\ UNCHANGED <<overflow_checks, rhs>>

CanCall(u) ==
  /\ Len(hist) < MaxSteps
  /\ cur # Panicked
  /\ cur.unit = u

BytesFromWords ==
  /\ CanCall("Words")
  /\ Call("Bytes::from(Words)", Bytes_from_Words(cur))

BytesFromPages ==
  /\ CanCall("Pages")
  /\ Call("Bytes::from(Pages)", Bytes_from_Pages(cur))

WordsFromPages ==
  /\ CanCall("Pages")
  /\ Call("Words::from(Pages)", Words_from_Pages(cur))

BytesRoundUpToWords ==
  /\ CanCall("Bytes")
  /\ Call("Bytes::round_up_to(Words)", Bytes_round_up_to_Words(cur))

BytesRoundUpToPages ==
  /\ CanCall("Bytes")
  /\ Call("Bytes::round_up_to(Pages)", Bytes_round_up_to_Pages(cur))

WordsRoundUpToPages ==
  /\ CanCall("Words")
  /\ Call("Words::round_up_to(Pages)", Words_round_up_to_Pages(cur))

CanApply ==
  /\ Len(hist) < MaxSteps
  /\ cur # Panicked
  /\ Convertible(rhs.unit, cur.unit)

Add ==
  /\ CanApply
  /\ Call("add", add(cur, rhs))

Sub ==
  /\ CanApply
  /\ Call("sub", sub(cur, rhs))

Mul ==
  /\ CanApply
  /\ Call("mul", mul(cur, rhs))

Div ==
  /\ CanApply
  /\ Call("div", div(cur, rhs))

Next ==
  \/ BytesFromWords
  \/ BytesFromPages
  \/ WordsFromPages
  \/ BytesRoundUpToWords
  \/ BytesRoundUpToPages
  \/ WordsRoundUpToPages
  \/ Add
  \/ Sub
  \/ Mul
  \/ Div

Spec == Init /\ [][Next]_vars

\* ------------------------------------------------------- reading the calls

Calls == 1 .. Len(hist)

\* Call i was `op`.
Was(i, op) == i \in Calls /\ hist[i].op = op

\* ceil(b / d) over the mathematical integers.
CeilDiv(b, d) == IF b % d = 0 THEN b \div d ELSE b \div d + 1

\* The right operand of call i in the unit of its left operand, as a usize
\* (PANIC when its conversion panicked).
Converted(i) == Field0(into(rhs, hist[i].arg.unit))

\* ------------------------------------------------------------------ claims

\* C1: for every byte count b that fits usize, Bytes(b).round_up_to() to
\* Words returns Words(ceil(b / w)), w = size_of::<usize>().
C1_RoundUpToWordsIsCeil ==
  \A i \in Calls :
    Was(i, "Bytes::round_up_to(Words)") =>
      hist[i].res = [unit |-> "Words", n |-> CeilDiv(hist[i].arg.n, SIZE_OF_USIZE)]

\* C2: for every byte count b, Bytes(b).round_up_to() to Pages returns the
\* minimum p with p * PAGE_SIZE >= b: when p > 0, (p - 1) * PAGE_SIZE < b.
C2_RoundUpToPagesIsMinimal ==
  \A i \in Calls :
    Was(i, "Bytes::round_up_to(Pages)") =>
      /\ hist[i].res # Panicked
      /\ hist[i].res.unit = "Pages"
      /\ hist[i].res.n * PAGE_SIZE >= hist[i].arg.n
      /\ hist[i].res.n > 0 => (hist[i].res.n - 1) * PAGE_SIZE < hist[i].arg.n

\* C3: for all page counts n, Pages(n) converted to Bytes and rounded back
\* up to Pages yields Pages(n).  Stated for the page counts whose byte
\* count n * PAGE_SIZE fits usize, where the conversion has a value to
\* round.
C3_RoundTripPages ==
  \A i \in Calls :
    /\ Was(i, "Bytes::from(Pages)")
    /\ hist[i].arg.n * PAGE_SIZE <= USIZE_MAX
    /\ Was(i + 1, "Bytes::round_up_to(Pages)")
    => hist[i + 1].res = hist[i].arg

\* C4 as stated: for all n, Bytes::from(Pages(n)) wraps exactly
\* n * PAGE_SIZE and Bytes::from(Words(n)) wraps exactly n * w.
C4_ExactForAll ==
  \A i \in Calls :
    /\ Was(i, "Bytes::from(Pages)") =>
         hist[i].res = [unit |-> "Bytes", n |-> hist[i].arg.n * PAGE_SIZE]
    /\ Was(i, "Bytes::from(Words)") =>
         hist[i].res = [unit |-> "Bytes", n |-> hist[i].arg.n * SIZE_OF_USIZE]

\* C4 amended: for all n whose product fits usize, Bytes::from(Pages(n))
\* wraps exactly n * PAGE_SIZE and Bytes::from(Words(n)) wraps exactly
\* n * w, and no other such source value converts to the same byte count.
C4_ExactWhenRepresentable ==
  \A i \in Calls :
    /\ Was(i, "Bytes::from(Pages)") /\ hist[i].arg.n * PAGE_SIZE <= USIZE_MAX =>
         /\ hist[i].res = [unit |-> "Bytes", n |-> hist[i].arg.n * PAGE_SIZE]
         /\ \A m \in Inputs :
              m * PAGE_SIZE <= USIZE_MAX /\ m # hist[i].arg.n =>
                Bytes_from_Pages(Unit("Pages", m)) # hist[i].res
    /\ Was(i, "Bytes::from(Words)") /\ hist[i].arg.n * SIZE_OF_USIZE <= USIZE_MAX =>
         /\ hist[i].res = [unit |-> "Bytes", n |-> hist[i].arg.n * SIZE_OF_USIZE]
         /\ \A m \in Inputs :
              m * SIZE_OF_USIZE <= USIZE_MAX /\ m # hist[i].arg.n =>
                Bytes_from_Words(Unit("Words", m)) # hist[i].res

\* C4 witness: the largest page count whose bytes fit was converted.
C4_Witness ==
  /\ Was(1, "Bytes::from(Pages)")
  /\ hist[1].arg.n = USIZE_MAX \div PAGE_SIZE
  /\ hist[1].res.n = USIZE_MAX - PAGE_SIZE + 1

\* C5: each operator returns a value of the left operand's unit wrapping
\* (left integer OP exact conversion of the right integer): the right
\* operand goes through the From conversion into the left unit (none for
\* the same unit, a multiplication by the unit's size into Bytes), never a
\* rounding one.  Bytes(a) + Bytes(b) = Bytes(a + b) and
\* Bytes(a) + Pages(p) = Bytes(a + p * PAGE_SIZE).
C5_OperatorsConvertExactly ==
  \A i \in Calls :
    LET a == hist[i].arg.n
        u == hist[i].arg.unit
        r == hist[i].res
        k == IF rhs.unit = "Words" THEN SIZE_OF_USIZE ELSE PAGE_SIZE
        b == IF rhs.unit = u THEN rhs.n
             ELSE IF u = "Bytes" THEN usize_mul(rhs.n, k)
             ELSE Field0(Words_from_Pages(rhs))
    IN  /\ Was(i, "add") => r = Unit(u, usize_add(a, b))
        /\ Was(i, "sub") => r = Unit(u, usize_sub(a, b))
        /\ Was(i, "mul") => r = Unit(u, usize_mul(a, b))
        /\ Was(i, "div") => r = Unit(u, usize_div(a, b))
        /\ Was(i, "add") /\ rhs.unit = u /\ a + rhs.n <= USIZE_MAX =>
             r = [unit |-> u, n |-> a + rhs.n]
        /\ Was(i, "add") /\ u = "Bytes" /\ rhs.unit # u
             /\ a + rhs.n * k <= USIZE_MAX =>
             r = [unit |-> "Bytes", n |-> a + rhs.n * k]

\* C5 witness: Bytes(0) + Pages(1) gave Bytes(PAGE_SIZE).
C5_Witness ==
  /\ Was(1, "add")
  /\ hist[1].arg = [unit |-> "Bytes", n |-> 0]
  /\ rhs = [unit |-> "Pages", n |-> 1]
  /\ hist[1].res = [unit |-> "Bytes", n |-> PAGE_SIZE]

\* C6 as stated: Bytes(a) - Bytes(b) faults whenever b > a and
\* Bytes(a) / Bytes(0) faults for every a; the same for Words and Pages and
\* for a right operand of another unit after its exact conversion.
C6_SubAndDivFault ==
  \A i \in Calls :
    /\ Was(i, "sub") /\ Converted(i) > hist[i].arg.n => hist[i].res = Panicked
    /\ Was(i, "div") /\ Converted(i) = 0 => hist[i].res = Panicked

\* C6 amended: division by zero faults in every build; subtraction with
\* b > a faults in a build with overflow checks and, in a build without
\* them, returns the left unit wrapping a - b + 2^USIZE_BITS.
C6_SubFaultsWhenChecked ==
  \A i \in Calls :
    LET a == hist[i].arg.n
        b == Converted(i)
    IN  /\ Was(i, "div") /\ b = 0 => hist[i].res = Panicked
        /\ Was(i, "sub") /\ b > a /\ overflow_checks => hist[i].res = Panicked
        /\ Was(i, "sub") /\ b > a /\ ~overflow_checks =>
             hist[i].res = [unit |-> hist[i].arg.unit, n |-> USIZE_MAX + 1 + a - b]

\* C6 witness: in a checked build a subtraction of a larger right operand
\* of another unit faulted.
C6_Witness ==
  /\ overflow_checks
  /\ Was(1, "sub")
  /\ hist[1].arg = [unit |-> "Bytes", n |-> PAGE_SIZE - 1]
  /\ rhs = [unit |-> "Pages", n |-> 1]
  /\ hist[1].res = Panicked

\* The mathematical result of call i, or of one of its steps, exceeds
\* usize::MAX.
Overflows(i) ==
  LET a == hist[i].arg.n
      u == hist[i].arg.unit
      k == IF rhs.unit = "Words" THEN SIZE_OF_USIZE ELSE PAGE_SIZE
      convOverflows == rhs.unit # u /\ rhs.n * k > USIZE_MAX
      b == Converted(i)
  IN  \/ Was(i, "add") /\ (convOverflows \/ a + b > USIZE_MAX)
      \/ Was(i, "mul") /\ (convOverflows \/ (a # 0 /\ b > USIZE_MAX \div a))
      \/ Was(i, "Bytes::from(Pages)") /\ a * PAGE_SIZE > USIZE_MAX
      \/ Was(i, "Words::from(Pages)") /\ a * PAGE_SIZE > USIZE_MAX
      \/ Was(i, "Bytes::from(Words)") /\ a * SIZE_OF_USIZE > USIZE_MAX
      \/ Was(i, "Bytes::round_up_to(Words)") /\ a + SIZE_OF_USIZE - 1 > USIZE_MAX
      \/ Was(i, "Bytes::round_up_to(Pages)") /\ a + PAGE_SIZE - 1 > USIZE_MAX
      \/ Was(i, "Words::round_up_to(Pages)")
           /\ a * SIZE_OF_USIZE + PAGE_SIZE - 1 > USIZE_MAX

\* C7 as stated: whenever the true result of an addition, a multiplication,
\* an exact conversion or a step of a round-up conversion exceeds the usize
\* range, the operation fails; it never returns a wrapped value.
C7_OverflowFaults ==
  \A i \in Calls : Overflows(i) => hist[i].res = Panicked

\* C7 amended: in a build with overflow checks such an operation fails at
\* that operation; in a build without them it returns a value, the result
\* computed modulo 2^USIZE_BITS.
C7_OverflowFaultsWhenChecked ==
  \A i \in Calls :
    LET a == hist[i].arg.n
        r == hist[i].res
    IN  /\ Overflows(i) /\ overflow_checks => r = Panicked
        /\ Overflows(i) /\ ~overflow_checks =>
             /\ r # Panicked
             /\ Was(i, "add") => r.n = Wrap(a + Converted(i))
             /\ Was(i, "mul") => r.n = WrappingMul(a, Converted(i))
             /\ Was(i, "Bytes::from(Pages)") => r.n = Wrap(a * PAGE_SIZE)
             /\ Was(i, "Bytes::from(Words)") => r.n = Wrap(a * SIZE_OF_USIZE)
             /\ Was(i, "Words::from(Pages)") =>
                  r.n = Wrap(a * PAGE_SIZE) \div SIZE_OF_USIZE
             /\ Was(i, "Bytes::round_up_to(Words)") =>
                  r.n = Wrap(a + SIZE_OF_USIZE - 1) \div SIZE_OF_USIZE
             /\ Was(i, "Bytes::round_up_to(Pages)") =>
                  r.n = Wrap(a + PAGE_SIZE - 1) \div PAGE_SIZE
             /\ Was(i, "Words::round_up_to(Pages)") =>
                  r.n = Wrap(a * SIZE_OF_USIZE + PAGE_SIZE - 1) \div PAGE_SIZE

\* C7 witness: in a checked build an addition whose sum is usize::MAX + 1
\* faulted.
C7_Witness ==
  /\ overflow_checks
  /\ Was(1, "add")
  /\ hist[1].arg.n + Converted(1) = USIZE_MAX + 1
  /\ hist[1].res = Panicked

\* C8: for every page count n whose word count fits usize, Words::from(
\* Pages(n)) returns Words(n * (PAGE_SIZE / w)), w = size_of::<usize>().
C8_WordsFromPagesExact ==
  \A i \in Calls :
    /\ Was(i, "Words::from(Pages)")
    /\ hist[i].arg.n * (PAGE_SIZE \div SIZE_OF_USIZE) <= USIZE_MAX
    => hist[i].res =
         [unit |-> "Words", n |-> hist[i].arg.n * (PAGE_SIZE \div SIZE_OF_USIZE)]

\* C9: for every word count n, Words(n).round_up_to() to Pages returns
\* Pages(ceil(n * w / PAGE_SIZE)), the minimum number of pages that holds
\* n words.
C9_WordsRoundUpIsCeil ==
  \A i \in Calls :
    Was(i, "Words::round_up_to(Pages)") =>
      hist[i].res =
        [unit |-> "Pages", n |-> CeilDiv(hist[i].arg.n * SIZE_OF_USIZE, PAGE_SIZE)]

\* C10: the exact conversions commute: Pages(n) to Words to Bytes gives
\* what Pages(n) to Bytes gives, so Bytes(0) + Pages(n) equals
\* Bytes(0) + Words::from(Pages(n)); and Words::from(Pages(n)) rounded up to
\* Pages gives Pages(n).  The last part is stated for the page counts
\* whose byte count n * PAGE_SIZE fits usize, where each conversion on the
\* way has a value.
C10_ConversionsCommute ==
  \A i \in Calls :
    Was(i, "Words::from(Pages)") =>
      LET pages  == hist[i].arg
          words  == hist[i].res
          direct == Bytes_from_Pages(pages)
          zero   == [unit |-> "Bytes", n |-> 0]
      IN  /\ words = Panicked => direct = Panicked
          /\ words # Panicked =>
               /\ Bytes_from_Words(words) = direct
               /\ add(zero, words) = add(zero, pages)
          /\ Was(i + 1, "Bytes::from(Words)") => hist[i + 1].res = direct
          /\ Was(i + 1, "Words::round_up_to(Pages)")
               /\ pages.n * PAGE_SIZE <= USIZE_MAX
               => hist[i + 1].res = pages

====
